---- MODULE Spec2Model ----
(***************************************************************************)
(* Model of the Surfingkeys config service: the Bun HTTP server            *)
(* (packages/server/src/index.ts), its secret route handler                *)
(* (routes/secrets.ts) and the Proton Pass gateway (lib/proton-pass.ts),   *)
(* and of the config bundle that asks it for a secret in the browser       *)
(* (packages/config: index.ts, llm/openrouter.ts, lib/server-client.ts).   *)
(*                                                                         *)
(* JavaScript values are records tagged by their type in field k; strings  *)
(* are TLA+ strings and are concatenated with \o.  A URL pathname is a      *)
(* sequence of tokens, each either the separator "/" or a segment.         *)
(***************************************************************************)
EXTENDS Integers, Sequences, FiniteSets, TLC

VARIABLES
    testMode,    \* process.env.TEST_MODE === 'true'
    pc,          \* position of the start-up sequence
    auth,        \* AuthenticationState of authenticateProtonPass
    exitStatus,  \* process exit status, NotExited while running
    listening,   \* serve() has bound the listening socket
    configPath,  \* the const configPath captured by fetch
    loginCalls,  \* number of `pass-cli login` invocations so far
    toolCalls,   \* number of `pass-cli item get` invocations so far
    requests,    \* the HTTP requests, by arrival number: path, what the
                 \* environment supplied (out) and the response
    log,         \* console output, in order
    client       \* the config bundle in the browser: the promise of its
                 \* getSecret, its setupLLM, settings.llm.custom, its console

vars == <<testMode, pc, auth, exitStatus, listening, configPath,
          loginCalls, toolCalls, requests, log, client>>

----------------------------------------------------------------------------
(* Bounds *)

MaxRequests == 2

----------------------------------------------------------------------------
(* JavaScript values *)

Undefined == [k |-> "undefined"]
Null == [k |-> "null"]
Str(s) == [k |-> "string", v |-> s]
Obj(f) == [k |-> "object", f |-> f]
\* the function Object, found as `constructor` on every object literal
ObjectConstructor == [k |-> "function"]

Nullish(x) == x.k \in {"undefined", "null"}

\* ToBoolean
Truthy(x) ==
    CASE x.k = "string" -> x.v # ""
      [] Nullish(x) -> FALSE
      [] OTHER -> TRUE

\* a || b
Or(a, b) == IF Truthy(a) THEN a ELSE b

\* o.key, for o that is neither null nor undefined
Get(o, key) ==
    IF o.k = "object" /\ key \in DOMAIN o.f THEN o.f[key] ELSE Undefined

\* o?.key
OptGet(o, key) == IF Nullish(o) THEN Undefined ELSE Get(o, key)

\* JSON.stringify of an object literal: members whose value is undefined or
\* a function are left out
Stringify(obj) ==
    [key \in {x \in DOMAIN obj : obj[x].k \notin {"undefined", "function"}}
        |-> obj[key]]

----------------------------------------------------------------------------
(* Errors and results *)

NoError == [type |-> "none", message |-> "", raw |-> ""]

\* Bun's ShellError for a non-zero exit; the captured output rides along
ShellError(code, raw) ==
    [type |-> "ShellError",
     message |-> "Failed with exit code " \o ToString(code),
     raw |-> raw]

\* JSON.parse applied to output that is not JSON
JsonSyntaxError(raw) ==
    [type |-> "SyntaxError",
     message |-> "JSON Parse error: Unexpected identifier \"" \o raw \o "\"",
     raw |-> ""]

\* result.data where result is null
NullTypeError ==
    [type |-> "TypeError",
     message |-> "null is not an object (evaluating 'result.data')",
     raw |-> ""]

\* SecretNotFound as it would be with a message that leaves the name out
SecretNotFound_Unnamed(name) ==
    [type |-> "Error", message |-> "Secret not found in Proton Pass", raw |-> ""]

SecretNotFound(name) ==
    [type |-> "Error",
     message |-> "Secret '" \o name \o "' not found in Proton Pass",
     raw |-> ""]

Return(v) == [ok |-> TRUE, value |-> v, error |-> NoError]
Throw(e) == [ok |-> FALSE, value |-> Undefined, error |-> e]

----------------------------------------------------------------------------
(* The external tool: `pass-cli item get <name> --format json` *)

\* what the subprocess printed when it failed or printed no JSON
RawOutputs == {"denied", "offline"}

Password == "hunter2"
Note == "a note"

\* the values the members of an itemData object may take
PasswordValues == {Undefined, Str(""), Str(Password)}
TextValues == {Undefined, Str(Note)}

ItemFields(p, t) ==
    [key \in {x \in {"password", "text"} :
                 (x = "password" /\ p # Undefined) \/ (x = "text" /\ t # Undefined)}
        |-> IF key = "password" THEN p ELSE t]

ItemDatas ==
    {Obj(ItemFields(p, t)) : p \in PasswordValues, t \in TextValues}

Record(itemData) == Obj([data |-> Obj([content |-> Obj([itemData |-> itemData])])])

\* the JSON documents the tool may print
ParsedOutputs ==
    {Null,
     Obj([data |-> Obj(<<>>)])}
    \cup {Record(i) : i \in ItemDatas}

NoOutcome == [kind |-> "none", code |-> 0, raw |-> "", json |-> Undefined]

\* what the bundle file may hold: a script, nothing, or something else
BundleContents == {"api.mapkey()", "", "<html>"}

\* what Bun.file found on disk
FileOutcome(exists, content) ==
    [kind |-> IF exists THEN "file" ELSE "nofile", code |-> 0,
     raw |-> IF exists THEN content ELSE "", json |-> Undefined]

\* the reads of the bundle file a request may see
FileOutcomes ==
    {FileOutcome(FALSE, "")} \cup {FileOutcome(TRUE, c) : c \in BundleContents}

ToolOutcomes ==
    {[kind |-> "exit", code |-> 1, raw |-> r, json |-> Undefined] : r \in RawOutputs}
    \cup {[kind |-> "garbage", code |-> 0, raw |-> r, json |-> Undefined] :
            r \in RawOutputs}
    \cup {[kind |-> "json", code |-> 0, raw |-> "", json |-> j] : j \in ParsedOutputs}

----------------------------------------------------------------------------
(* Credential gateway: getSecret *)

\* mockSecrets as it would be with another value for the API key
mockSecrets_OtherValue ==
    [n \in {"openrouter-api-key", "test-secret"} |->
        IF n = "openrouter-api-key" THEN "test-api-key" ELSE "test-value"]

mockSecrets ==
    [n \in {"openrouter-api-key", "test-secret"} |->
        IF n = "openrouter-api-key" THEN "test-api-key-12345" ELSE "test-value"]

\* property names every object literal inherits from Object.prototype
ObjectPrototypeProps == {"constructor"}

\* mockSecrets[name]
MockLookup(name) ==
    IF name \in DOMAIN mockSecrets THEN Str(mockSecrets[name])
    ELSE IF name \in ObjectPrototypeProps THEN ObjectConstructor
    ELSE Undefined

\* getSecretMock as it would be without the `|| ''` default
getSecretMock_NoDefault(name) == Return(MockLookup(name))

\* getSecretMock as it would be if unknown names were reported as missing
getSecretMock_Throws(name) ==
    IF Truthy(MockLookup(name)) THEN Return(MockLookup(name))
    ELSE Throw([type |-> "Error",
                message |-> "Secret '" \o name \o "' not found in Proton Pass",
                raw |-> ""])

\* getSecret with TEST_MODE === 'true'
getSecretMock(name) == Return(Or(MockLookup(name), Str("")))

\* $`...`.json(): throws on a non-zero exit, else JSON.parse of stdout
ShellJson(out) ==
    IF out.kind = "exit" THEN Throw(ShellError(out.code, out.raw))
    ELSE IF out.kind = "garbage" THEN Throw(JsonSyntaxError(out.raw))
    ELSE Return(out.json)

\* result.data?.content?.itemData
ItemDataOf(result) == OptGet(OptGet(Get(result, "data"), "content"), "itemData")

\* SecretOf as it would be without the trailing `|| ''`
SecretOf_NoFallback(itemData) ==
    Or(Get(itemData, "password"), Get(itemData, "text"))

\* SecretOf as it would be with the two fields in the other order
SecretOf_TextFirst(itemData) ==
    Or(Or(Get(itemData, "text"), Get(itemData, "password")), Str(""))

\* password || text || ''
SecretOf(itemData) ==
    Or(Or(Get(itemData, "password"), Get(itemData, "text")), Str(""))

\* getSecret after the subprocess ended with outcome out
getSecretTool(name, out) ==
    LET parsed == ShellJson(out)
    IN  IF ~parsed.ok THEN parsed
        ELSE IF Nullish(parsed.value) THEN Throw(NullTypeError)
        ELSE IF ~Truthy(ItemDataOf(parsed.value)) THEN Throw(SecretNotFound(name))
        ELSE Return(SecretOf(ItemDataOf(parsed.value)))

----------------------------------------------------------------------------
(* Responses *)

NoResponse ==
    [status |-> 0, ctype |-> "", kind |-> "none", json |-> <<>>, text |-> ""]

\* Response.json(obj, {status})
ResponseJson(obj, status) ==
    [status |-> status, ctype |-> "application/json", kind |-> "json",
     json |-> Stringify(obj), text |-> ""]

\* new Response('Not Found', { status: 404 })
ResponseNotFound ==
    [status |-> 404, ctype |-> "text/plain", kind |-> "text", json |-> <<>>,
     text |-> "Not Found"]

\* ResponseFile as it would be without the headers option: the type Bun
\* infers from the .js extension
ResponseFile_NoHeader(path, file) ==
    IF file.kind = "file"
    THEN [status |-> 200, ctype |-> "text/javascript;charset=utf-8",
          kind |-> "file", json |-> <<>>, text |-> file.raw]
    ELSE [status |-> 500, ctype |-> "", kind |-> "unhandled", json |-> <<>>,
          text |-> path]

\* new Response(Bun.file(path), {headers}); a missing file is an unhandled
\* failure of the runtime, shown as status 500 without content type
ResponseFile(path, file) ==
    IF file.kind = "file"
    THEN [status |-> 200, ctype |-> "application/javascript", kind |-> "file",
          json |-> <<>>, text |-> file.raw]
    ELSE [status |-> 500, ctype |-> "", kind |-> "unhandled", json |-> <<>>,
          text |-> path]

\* handleGetSecret, lines 4-9
ResponseNameRequired ==
    ResponseJson([error |-> Str("Secret name is required")], 400)

\* ResponseForResult as it would be if the catch block put the error object,
\* not its message, in the body
ResponseForResult_ErrorObject(res) ==
    IF res.ok THEN ResponseJson([value |-> res.value], 200)
    ELSE ResponseJson([error |-> Obj(<<>>)], 500)

\* handleGetSecret, lines 11-20: the response for the gateway's result
ResponseForResult(res) ==
    IF res.ok THEN ResponseJson([value |-> res.value], 200)
    ELSE ResponseJson(
            [error |-> Str(IF res.error.type # "none" THEN res.error.message
                           ELSE "Unknown error")], 500)

\* console.error(`Error fetching secret '${name}':`, error)
ErrorLogLine(name, res) ==
    [level |-> "error", msg |-> "Error fetching secret '" \o name \o "':",
     err |-> res.error]

LogLine(level, msg) == [level |-> level, msg |-> msg, err |-> NoError]

\* LogForResult as it would be if a successful lookup were logged with its
\* value
LogForResult_Verbose(name, res) ==
    IF res.ok
    THEN <<LogLine("log", "Fetched secret '" \o name \o "': "
                          \o (IF res.value.k = "string" THEN res.value.v ELSE ""))>>
    ELSE <<ErrorLogLine(name, res)>>

\* what handleGetSecret appends to the console for the gateway's result
LogForResult(name, res) ==
    IF res.ok THEN <<>> ELSE <<ErrorLogLine(name, res)>>

----------------------------------------------------------------------------
(* HTTP dispatcher: pathname handling *)

ConfigJsPath == <<"/", "config.js">>
SecretsPrefix == <<"/", "api", "/", "secrets", "/">>

\* the request pathnames of the model
Paths ==
    {ConfigJsPath,
     ConfigJsPath \o <<"/">>,
     <<"/", "unknown">>,
     <<"/", "api", "/", "secrets">>,
     SecretsPrefix,
     SecretsPrefix \o <<"openrouter-api-key">>,
     SecretsPrefix \o <<"test-secret">>,
     SecretsPrefix \o <<"constructor">>,
     SecretsPrefix \o <<"a", "/", "unknown-key">>,
     SecretsPrefix \o <<"unknown-key", "/">>}

\* pathname.startsWith(prefix)
StartsWith(path, prefix) ==
    /\ Len(path) >= Len(prefix)
    /\ SubSeq(path, 1, Len(prefix)) = prefix

\* the position of the last "/" of the pathname, 0 when it has none
LastSlash(path) ==
    IF \E i \in 1..Len(path) : path[i] = "/"
    THEN CHOOSE i \in 1..Len(path) :
            /\ path[i] = "/"
            /\ \A j \in (i + 1)..Len(path) : path[j] # "/"
    ELSE 0

RECURSIVE Join(_)
Join(tokens) == IF tokens = <<>> THEN "" ELSE Head(tokens) \o Join(Tail(tokens))

\* SplitPop as it would be with split('/')[3], the segment after the prefix
SplitPop_AfterPrefix(path) ==
    IF Len(path) > Len(SecretsPrefix) THEN path[Len(SecretsPrefix) + 1] ELSE ""

\* pathname.split('/').pop()
SplitPop(path) == Join(SubSeq(path, LastSlash(path) + 1, Len(path)))

\* Route as it would be if the prefix were tested without its trailing slash
Route_LoosePrefix(path) ==
    IF path = ConfigJsPath THEN "config"
    ELSE IF StartsWith(path, <<"/", "api", "/", "secrets">>) THEN "secret"
    ELSE "notfound"

\* the branch of fetch a pathname takes
Route(path) ==
    IF path = ConfigJsPath THEN "config"
    ELSE IF StartsWith(path, SecretsPrefix) THEN "secret"
    ELSE "notfound"

----------------------------------------------------------------------------
(* State *)

NotExited == -1

DockerPath == "/app/static/config.js"
LocalPath == "packages/config/dist/bundle.js"

Requests == 1..MaxRequests

NoRequest ==
    [stage |-> "none", path |-> <<>>, route |-> "", name |-> "",
     out |-> NoOutcome, resp |-> NoResponse]

\* existsSync(dockerPath) ? dockerPath : localPath
getConfigPath(dockerExists) == IF dockerExists THEN DockerPath ELSE LocalPath

\* the browser has not loaded the bundle
NoClient ==
    [pc |-> "unloaded", loaded |-> FALSE, responses |-> <<>>,
     promise |-> [state |-> "none"], settled |-> <<>>,
     custom0 |-> Undefined, custom |-> Undefined, console |-> <<>>]

Init ==
    /\ testMode \in BOOLEAN
    /\ pc = "start"
    /\ auth = "NotStarted"
    /\ exitStatus = NotExited
    /\ listening = FALSE
    /\ configPath = ""
    /\ loginCalls = 0
    /\ toolCalls = 0
    /\ requests = [r \in Requests |-> NoRequest]
    /\ log = <<>>
    /\ client = NoClient

----------------------------------------------------------------------------
(* Start-up *)

\* authenticateProtonPass, lines 9-12
AuthSkipped ==
    /\ pc = "start"
    /\ testMode
    /\ auth' = "Authenticated"
    /\ log' = Append(log, LogLine("log", "Test mode: Skipping Proton Pass authentication"))
    /\ pc' = "authenticated"
    /\ UNCHANGED <<client, testMode, exitStatus, listening, configPath,
                   loginCalls, toolCalls, requests>>

\* authenticateProtonPass, line 15: the login subprocess is started and awaited
AuthLogin ==
    /\ pc = "start"
    /\ ~testMode
    /\ auth' = "Authenticating"
    /\ loginCalls' = loginCalls + 1
    /\ pc' = "login"
    /\ UNCHANGED <<client, testMode, exitStatus, listening, configPath,
                   toolCalls, requests, log>>

\* authenticateProtonPass, line 16
LoginSucceeds ==
    /\ pc = "login"
    /\ auth' = "Authenticated"
    /\ log' = Append(log, LogLine("log", "Authenticated with Proton Pass"))
    /\ pc' = "authenticated"
    /\ UNCHANGED <<client, testMode, exitStatus, listening, configPath,
                   loginCalls, toolCalls, requests>>

\* LoginFails as it would be if the catch block logged without process.exit
LoginFails_NoExit ==
    /\ pc = "login"
    /\ auth' = "Failed"
    /\ log' = Append(log, LogLine("error", "Failed to authenticate with Proton Pass:"))
    /\ pc' = "authenticated"
    /\ UNCHANGED <<client, testMode, exitStatus, listening, configPath,
                   loginCalls, toolCalls, requests>>

\* authenticateProtonPass, lines 17-20
LoginFails ==
    /\ pc = "login"
    /\ auth' = "Failed"
    /\ log' = Append(log, [level |-> "error",
                           msg |-> "Failed to authenticate with Proton Pass:",
                           err |-> ShellError(1, "")])
    /\ exitStatus' = 1
    /\ pc' = "exited"
    /\ UNCHANGED <<client, testMode, listening, configPath, loginCalls,
                   toolCalls, requests>>

\* Serve as it would be if startServer did not await authenticateProtonPass
Serve_NotAwaited ==
    /\ pc \in {"login", "authenticated"}
    /\ \E dockerExists \in BOOLEAN : configPath' = getConfigPath(dockerExists)
    /\ listening' = TRUE
    /\ log' = Append(log, LogLine("log", "Server running"))
    /\ pc' = "listening"
    /\ UNCHANGED <<client, testMode, auth, exitStatus, loginCalls, toolCalls,
                   requests>>

\* startServer, lines 38-67: the path is fixed, by what the disk holds at
\* this moment, and the socket bound
Serve ==
    /\ pc = "authenticated"
    /\ \E dockerExists \in BOOLEAN : configPath' = getConfigPath(dockerExists)
    /\ listening' = TRUE
    /\ log' = log \o <<LogLine("log", "Serving config from: " \o configPath'),
                       LogLine("log", "Server running at http://127.0.0.1:16080"),
                       LogLine("log", "Config available at http://127.0.0.1:16080/config.js")>>
    /\ pc' = "listening"
    /\ UNCHANGED <<client, testMode, auth, exitStatus, loginCalls,
                   toolCalls, requests>>

----------------------------------------------------------------------------
(* Requests *)

\* NameMissing as it would be if only `name === undefined` were tested
NameMissing_UndefinedOnly(name) == name.k = "undefined"

\* handleGetSecret, line 4: !name
NameMissing(name) == ~Truthy(name)

Done(path, route, name, out, resp) ==
    [stage |-> "done", path |-> path, route |-> route, name |-> name,
     out |-> out, resp |-> resp]

Awaiting(path, name) ==
    [stage |-> "awaiting", path |-> path, route |-> "secret", name |-> name,
     out |-> NoOutcome, resp |-> NoResponse]

\* FetchConfig as it would be if every request called getConfigPath again
FetchConfig_Reresolved(r, path) ==
    /\ \E file \in FileOutcomes, dockerExists \in BOOLEAN :
          requests' = [requests EXCEPT ![r] =
              Done(path, "config", "", file,
                   ResponseFile(getConfigPath(dockerExists), file))]
    /\ UNCHANGED <<toolCalls, log>>

\* fetch, lines 48-54: the file at configPath is read, if the disk holds it
FetchConfig(r, path) ==
    /\ \E file \in FileOutcomes :
          requests' = [requests EXCEPT ![r] =
              Done(path, "config", "", file, ResponseFile(configPath, file))]
    /\ UNCHANGED <<toolCalls, log>>

\* FetchSecret as it would be if getSecret kept the values it has read and
\* answered a repeated name from them
FetchSecret_Cached(r, path) ==
    LET name == SplitPop(path)
        hits == {q \in Requests : /\ requests[q].stage = "done"
                                  /\ requests[q].name = name
                                  /\ requests[q].resp.status = 200}
    IN  IF NameMissing(Str(name))
        THEN /\ requests' = [requests EXCEPT ![r] =
                    Done(path, "secret", name, NoOutcome, ResponseNameRequired)]
             /\ UNCHANGED <<toolCalls, log>>
        ELSE IF testMode
        THEN /\ requests' = [requests EXCEPT ![r] =
                    Done(path, "secret", name, NoOutcome,
                         ResponseForResult(getSecretMock(name)))]
             /\ log' = log \o LogForResult(name, getSecretMock(name))
             /\ UNCHANGED toolCalls
        ELSE IF hits # {}
        THEN /\ requests' = [requests EXCEPT ![r] =
                    Done(path, "secret", name, NoOutcome,
                         requests[CHOOSE q \in hits : TRUE].resp)]
             /\ UNCHANGED <<toolCalls, log>>
        ELSE /\ requests' = [requests EXCEPT ![r] = Awaiting(path, name)]
             /\ toolCalls' = toolCalls + 1
             /\ UNCHANGED log

\* FetchSecret as it would be if the mock table handed each value out once:
\* a name already served is answered with the empty string
FetchSecret_OneShot(r, path) ==
    LET name == SplitPop(path)
        served == \E q \in Requests : /\ requests[q].stage = "done"
                                      /\ requests[q].route = "secret"
                                      /\ requests[q].name = name
        res == IF served THEN Return(Str("")) ELSE getSecretMock(name)
    IN  IF NameMissing(Str(name))
        THEN /\ requests' = [requests EXCEPT ![r] =
                    Done(path, "secret", name, NoOutcome, ResponseNameRequired)]
             /\ UNCHANGED <<toolCalls, log>>
        ELSE IF testMode
        THEN /\ requests' = [requests EXCEPT ![r] =
                    Done(path, "secret", name, NoOutcome, ResponseForResult(res))]
             /\ log' = log \o LogForResult(name, res)
             /\ UNCHANGED toolCalls
        ELSE /\ requests' = [requests EXCEPT ![r] = Awaiting(path, name)]
             /\ toolCalls' = toolCalls + 1
             /\ UNCHANGED log

\* fetch, lines 57-60, and handleGetSecret up to its first suspension
FetchSecret(r, path) ==
    LET name == SplitPop(path)
    IN  IF NameMissing(Str(name))
        THEN /\ requests' = [requests EXCEPT ![r] =
                    Done(path, "secret", name, NoOutcome, ResponseNameRequired)]
             /\ UNCHANGED <<toolCalls, log>>
        ELSE IF testMode
        THEN /\ requests' = [requests EXCEPT ![r] =
                    Done(path, "secret", name, NoOutcome,
                         ResponseForResult(getSecretMock(name)))]
             /\ log' = log \o LogForResult(name, getSecretMock(name))
             /\ UNCHANGED toolCalls
        ELSE /\ requests' = [requests EXCEPT ![r] = Awaiting(path, name)]
             /\ toolCalls' = toolCalls + 1
             /\ UNCHANGED log

\* fetch, line 62
FetchNotFound(r, path) ==
    /\ requests' = [requests EXCEPT ![r] =
            Done(path, "notfound", "", NoOutcome, ResponseNotFound)]
    /\ UNCHANGED <<toolCalls, log>>

\* Accepting as it would be if fetch were not re-entered while a lookup waits
\* for its subprocess
Accepting_Serial ==
    /\ listening
    /\ exitStatus = NotExited
    /\ \A q \in Requests : requests[q].stage # "awaiting"

\* the socket accepts connections
Accepting == listening /\ exitStatus = NotExited

\* Fetch as it would be if handling a request cleared TEST_MODE in the
\* environment
Fetch_ClearsFlag(r, path) ==
    /\ Accepting
    /\ requests[r].stage = "none"
    /\ \A q \in Requests : q < r => requests[q].stage # "none"
    /\ CASE Route(path) = "config" -> FetchConfig(r, path)
         [] Route(path) = "secret" -> FetchSecret(r, path)
         [] OTHER -> FetchNotFound(r, path)
    /\ testMode' = FALSE
    /\ UNCHANGED <<client, pc, auth, exitStatus, listening, configPath,
                   loginCalls>>

\* a request for path arrives and fetch runs up to its first suspension
Fetch(r, path) ==
    /\ Accepting
    /\ requests[r].stage = "none"
    /\ \A q \in Requests : q < r => requests[q].stage # "none"
    /\ CASE Route(path) = "config" -> FetchConfig(r, path)
         [] Route(path) = "secret" -> FetchSecret(r, path)
         [] OTHER -> FetchNotFound(r, path)
    /\ UNCHANGED <<client, testMode, pc, auth, exitStatus, listening,
                   configPath, loginCalls>>

\* ToolReturns as it would be if lookups of one name in flight were coalesced:
\* the outcome of one subprocess answers every request waiting for that name
ToolReturns_Coalesced(r, out) ==
    /\ exitStatus = NotExited
    /\ requests[r].stage = "awaiting"
    /\ LET name == requests[r].name
           res == getSecretTool(name, out)
       IN  /\ requests' = [q \in Requests |->
                    IF requests[q].stage = "awaiting" /\ requests[q].name = name
                    THEN Done(requests[q].path, "secret", name, out,
                              ResponseForResult(res))
                    ELSE requests[q]]
           /\ log' = log \o LogForResult(name, res)
    /\ UNCHANGED <<client, testMode, pc, auth, exitStatus, listening,
                   configPath, loginCalls, toolCalls>>

\* ToolReturns as it would be without the try/catch of handleGetSecret: a
\* rejected getSecret ends the process
ToolReturns_Uncaught(r, out) ==
    /\ exitStatus = NotExited
    /\ requests[r].stage = "awaiting"
    /\ LET name == requests[r].name
           res == getSecretTool(name, out)
       IN  IF res.ok
           THEN /\ requests' = [requests EXCEPT ![r] =
                        Done(requests[r].path, "secret", name, out,
                             ResponseForResult(res))]
                /\ UNCHANGED <<exitStatus, pc, log>>
           ELSE /\ exitStatus' = 1
                /\ pc' = "exited"
                /\ log' = log \o LogForResult(name, res)
                /\ UNCHANGED requests
    /\ UNCHANGED <<client, testMode, auth, listening, configPath, loginCalls, toolCalls>>

\* the `pass-cli item get` subprocess of request r ends with outcome out;
\* getSecret and handleGetSecret run to the end
ToolReturns(r, out) ==
    /\ exitStatus = NotExited
    /\ requests[r].stage = "awaiting"
    /\ LET name == requests[r].name
           res == getSecretTool(name, out)
       IN  /\ requests' = [requests EXCEPT ![r] =
                    Done(requests[r].path, "secret", name, out,
                         ResponseForResult(res))]
           /\ log' = log \o LogForResult(name, res)
    /\ UNCHANGED <<client, testMode, pc, auth, exitStatus, listening,
                   configPath, loginCalls, toolCalls>>

----------------------------------------------------------------------------
Next ==
    \/ AuthSkipped
    \/ AuthLogin
    \/ LoginSucceeds
    \/ LoginFails
    \/ Serve
    \/ \E r \in Requests, path \in Paths : Fetch(r, path)
    \/ \E r \in Requests, out \in ToolOutcomes : ToolReturns(r, out)

Spec == Init /\ [][Next]_vars

----------------------------------------------------------------------------
(* The server with one subprocess that never ends *)

\* the request whose `pass-cli item get` hangs: the first to arrive
Stalled == CHOOSE r \in Requests : \A q \in Requests : r <= q

\* as Next, but the subprocess of the stalled request never returns
NextStall ==
    \/ AuthSkipped
    \/ AuthLogin
    \/ LoginSucceeds
    \/ LoginFails
    \/ Serve
    \/ \E r \in Requests, path \in Paths : Fetch(r, path)
    \/ \E r \in Requests \ {Stalled}, out \in ToolOutcomes : ToolReturns(r, out)

\* every other subprocess ends, and its continuation is then run
SpecStall ==
    /\ Init
    /\ [][NextStall]_vars
    /\ \A r \in Requests \ {Stalled} :
          WF_vars(\E out \in ToolOutcomes : ToolReturns(r, out))

----------------------------------------------------------------------------
(* The server as the container starts it:
   CMD pass-cli login ${PROTON_EMAIL} && bun run packages/server/src/index.ts *)

InitContainer ==
    /\ testMode \in BOOLEAN
    /\ pc = "cmd"
    /\ auth = "NotStarted"
    /\ exitStatus = NotExited
    /\ listening = FALSE
    /\ configPath = ""
    /\ loginCalls = 0
    /\ toolCalls = 0
    /\ requests = [r \in Requests |-> NoRequest]
    /\ log = <<>>
    /\ client = NoClient

\* the left operand of &&: the shell runs pass-cli login, whatever TEST_MODE is
CmdLogin ==
    /\ pc = "cmd"
    /\ loginCalls' = loginCalls + 1
    /\ pc' = "cmdLogin"
    /\ UNCHANGED <<client, testMode, auth, exitStatus, listening, configPath,
                   toolCalls, requests, log>>

\* the login exits 0: the right operand of && starts the server
CmdLoginSucceeds ==
    /\ pc = "cmdLogin"
    /\ pc' = "start"
    /\ UNCHANGED <<client, testMode, auth, exitStatus, listening, configPath,
                   loginCalls, toolCalls, requests, log>>

\* the login exits non-zero: && skips the server and the container ends with
\* that status
CmdLoginFails ==
    /\ pc = "cmdLogin"
    /\ exitStatus' = 1
    /\ pc' = "exited"
    /\ UNCHANGED <<client, testMode, auth, listening, configPath, loginCalls,
                   toolCalls, requests, log>>

NextContainer ==
    \/ CmdLogin
    \/ CmdLoginSucceeds
    \/ CmdLoginFails
    \/ Next

SpecContainer == InitContainer /\ [][NextContainer]_vars

----------------------------------------------------------------------------
(* The config bundle in the browser: index.ts, setupLLM and the client's
   getSecret.  The Surfingkeys runtime and the network are its environment:
   the runtime calls back with an error or with the text of a response. *)

\* how many times the runtime may call back for one request
MaxCallbacks == 2

\* the name setupLLM asks for
SecretName == "openrouter-api-key"

\* what the server may answer to /api/secrets/openrouter-api-key
ServerAnswers ==
    {ResponseForResult(getSecretMock(SecretName))}
    \cup {ResponseForResult(getSecretTool(SecretName, out)) : out \in ToolOutcomes}

\* a response text that is the JSON document doc, or is not JSON
JsonText(doc) == [kind |-> "json", doc |-> doc, raw |-> ""]
OtherText(raw) == [kind |-> "other", doc |-> Undefined, raw |-> raw]

\* the errors the runtime may report: the 5-second timeout, the transport
RuntimeErrors == {"timeout", "Failed to fetch"}

\* what the runtime may hand to the callback
RuntimeResponses ==
    {[error |-> Str(e), status |-> 0, text |-> OtherText("")] : e \in RuntimeErrors}
    \cup {[error |-> Undefined, status |-> a.status, text |-> JsonText(Obj(a.json))] :
            a \in ServerAnswers}
    \cup {[error |-> Undefined, status |-> 200, text |-> JsonText(Null)],
          [error |-> Undefined, status |-> 502, text |-> OtherText("<html>")]}

\* new Error(prefix + detail)
ClientError(prefix, detail) ==
    [type |-> "Error", prefix |-> prefix, message |-> prefix \o detail]

\* JSON.parse(response.text)
JsonParse(text) ==
    IF text.kind = "json" THEN Return(text.doc)
    ELSE Throw([type |-> "SyntaxError", raw |-> "",
                message |-> "SyntaxError: Unexpected token in JSON"])

\* getSecret, lines 14-19: the try block
ParseAndResolve(text) ==
    LET data == JsonParse(text)
    IN  IF ~data.ok
        THEN [state |-> "rejected",
              error |-> ClientError("Failed to parse response: ", data.error.message)]
        ELSE IF Nullish(data.value)
        THEN [state |-> "rejected",
              error |-> ClientError("Failed to parse response: ",
                          "TypeError: Cannot read properties of null (reading 'value')")]
        ELSE [state |-> "resolved", value |-> Get(data.value, "value")]

\* getSecret, lines 10-21: what the callback asks of the promise
Settlement(response) ==
    IF Truthy(response.error)
    THEN [state |-> "rejected",
          error |-> ClientError("Server error: ", response.error.v)]
    ELSE ParseAndResolve(response.text)

\* setupLLM, lines 14-18
LLMCustom(apiKey) ==
    Obj([serviceUrl |-> Str("https://api.openrouter.ai/api/v1/chat/completions"),
         apiKey |-> apiKey,
         model |-> Str("anthropic/claude-3.5-sonnet")])

\* what settings.llm.custom may hold before the bundle loads
InitialCustoms == {Undefined, LLMCustom(Str("sk-old"))}

InitClient ==
    /\ testMode = FALSE
    /\ pc = "start"
    /\ auth = "NotStarted"
    /\ exitStatus = NotExited
    /\ listening = FALSE
    /\ configPath = ""
    /\ loginCalls = 0
    /\ toolCalls = 0
    /\ requests = [r \in Requests |-> NoRequest]
    /\ log = <<>>
    /\ \E c \in InitialCustoms :
          client = [NoClient EXCEPT !.custom0 = c, !.custom = c]

ServerVars == <<testMode, pc, auth, exitStatus, listening, configPath,
                loginCalls, toolCalls, requests, log>>

\* index.ts line 7: setupLLM() runs to its await, getSecret has created the
\* promise and sent the request; the module goes on to its end
LoadBundle ==
    /\ client.pc = "unloaded"
    /\ client' = [client EXCEPT !.pc = "awaiting",
                                !.promise = [state |-> "pending"],
                                !.loaded = TRUE]
    /\ UNCHANGED ServerVars

\* RuntimeCallback as it would be if the result were kept in a plain variable
\* that every callback overwrites
RuntimeCallback_LastWins(response) ==
    /\ client.promise.state # "none"
    /\ Len(client.responses) < MaxCallbacks
    /\ client' = [client EXCEPT
            !.responses = Append(@, response),
            !.settled = Append(@, Settlement(response).state),
            !.promise = Settlement(response)]
    /\ UNCHANGED ServerVars

\* the runtime calls back with response: resolve or reject is called, and
\* the promise takes it if it is still pending
RuntimeCallback(response) ==
    /\ client.promise.state # "none"
    /\ Len(client.responses) < MaxCallbacks
    /\ client' = [client EXCEPT
            !.responses = Append(@, response),
            !.settled = Append(@, Settlement(response).state),
            !.promise = IF @.state = "pending" THEN Settlement(response) ELSE @]
    /\ UNCHANGED ServerVars

\* setupLLM, lines 12-24, resumed when the promise has settled
ResumeSetupLLM ==
    /\ client.pc = "awaiting"
    /\ client.promise.state \in {"resolved", "rejected"}
    /\ client' =
          IF client.promise.state = "resolved"
          THEN [client EXCEPT
                  !.pc = "fulfilled",
                  !.custom = LLMCustom(client.promise.value),
                  !.console = Append(@, [level |-> "log",
                                         msg |-> "LLM configured successfully",
                                         err |-> NoError])]
          ELSE [client EXCEPT
                  !.pc = "fulfilled",
                  !.console = Append(@, [level |-> "error",
                                         msg |-> "Failed to setup LLM:",
                                         err |-> client.promise.error])]
    /\ UNCHANGED ServerVars

NextClient ==
    \/ LoadBundle
    \/ \E response \in RuntimeResponses : RuntimeCallback(response)
    \/ ResumeSetupLLM

SpecClient == InitClient /\ [][NextClient]_vars

----------------------------------------------------------------------------
(* Vocabulary of the properties *)

Arrived(r) == requests[r].stage # "none"
Answered(r) == requests[r].stage = "done"

\* request r was routed to handleGetSecret with a non-empty name
Lookup(r) == Arrived(r) /\ requests[r].route = "secret" /\ requests[r].name # ""

\* the subprocess of request r printed a JSON object
PrintedRecord(r) ==
    /\ requests[r].out.kind = "json"
    /\ requests[r].out.json.k = "object"

\* the itemData of the record printed for request r
ItemDataFor(r) == ItemDataOf(requests[r].out.json)

\* the subprocess of request r failed, printed no JSON, or printed a document
\* without content payload
LookupFailed(r) ==
    \/ requests[r].out.kind \in {"exit", "garbage"}
    \/ /\ requests[r].out.kind = "json"
       /\ \/ Nullish(requests[r].out.json)
          \/ ~Truthy(ItemDataFor(r))

\* the body is the JSON object with the single member key, a string
HasStringMember(resp, key) ==
    /\ resp.kind = "json"
    /\ DOMAIN resp.json = {key}
    /\ resp.json[key].k = "string"

\* the body is exactly {key: text}
BodyIs(resp, key, text) ==
    /\ HasStringMember(resp, key)
    /\ resp.json[key].v = text

----------------------------------------------------------------------------
(* Properties *)

\* C1: no request is dispatched, and the listening socket is not bound,
\* before authenticateProtonPass has completed with state Authenticated.
C1_StartupOrdering ==
    /\ listening => auth = "Authenticated"
    /\ \A r \in Requests : Arrived(r) => auth = "Authenticated" /\ listening

\* C1 witness: a request was answered after a real login.
C1_Witness ==
    /\ ~testMode
    /\ loginCalls = 1
    /\ \E r \in Requests : Answered(r)

\* C2: once the login has failed the process has exited with a non-zero
\* status, the login ran once, the socket is not bound and no request has
\* been or will be served: nothing changes any more.
C2_LoginFailureIsFatal ==
    /\ [](auth = "Failed" =>
            /\ ~testMode
            /\ exitStatus # NotExited /\ exitStatus # 0
            /\ loginCalls = 1
            /\ ~listening
            /\ \A r \in Requests : ~Arrived(r))
    /\ [][auth = "Failed" => UNCHANGED vars]_vars

\* C2 witness: the login failed.
C2_Witness == auth = "Failed" /\ pc = "exited"

\* C3: a request whose extracted name is empty (or absent) is answered 400
\* {"error":"Secret name is required"} at once, and no subprocess is started
\* for it: subprocesses are only started for non-empty names.
C3_EmptyNameIs400 ==
    /\ NameMissing(Undefined)
    /\ \A r \in Requests :
          Arrived(r) /\ requests[r].route = "secret" /\ requests[r].name = "" =>
             /\ Answered(r)
             /\ requests[r].resp.status = 400
             /\ BodyIs(requests[r].resp, "error", "Secret name is required")
             /\ requests[r].out = NoOutcome
    /\ toolCalls <= Cardinality({r \in Requests : Lookup(r)})

\* C3 witness: outside test mode, /api/secrets/unknown-key/ was answered 400
\* while no subprocess had been started.
C3_Witness ==
    /\ ~testMode
    /\ toolCalls = 0
    /\ \E r \in Requests :
          /\ Answered(r)
          /\ requests[r].path = SecretsPrefix \o <<"unknown-key", "/">>
          /\ requests[r].resp.status = 400

\* the result getSecret gave for request r
GatewayResult(r) ==
    IF testMode THEN getSecretMock(requests[r].name)
    ELSE getSecretTool(requests[r].name, requests[r].out)

\* C4 (as claimed): whenever getSecret succeeds for a non-empty name, the
\* response is 200 and its body has a member `value` holding a string.
C4_SuccessHasStringValue ==
    \A r \in Requests :
        Answered(r) /\ Lookup(r) /\ GatewayResult(r).ok =>
           /\ requests[r].resp.status = 200
           /\ HasStringMember(requests[r].resp, "value")

C7_MockApiKey ==
    \A r \in Requests :
        (/\ testMode
         /\ Arrived(r)
         /\ requests[r].path = SecretsPrefix \o <<"openrouter-api-key">>) =>
           /\ Answered(r)
           /\ requests[r].resp.status = 200
           /\ BodyIs(requests[r].resp, "value", "test-api-key-12345")

\* C7 witness: in test mode that request was made.
C7_Witness ==
    \E r \in Requests :
        /\ testMode
        /\ Answered(r)
        /\ requests[r].path = SecretsPrefix \o <<"openrouter-api-key">>

\* C8: in test mode no subprocess is ever started, every request is answered
\* without suspension, no lookup is answered 500 and no error is logged.
C8_TestModeNeverFails ==
    testMode =>
       /\ toolCalls = 0
       /\ \A r \in Requests :
             /\ Arrived(r) => Answered(r)
             /\ requests[r].route = "secret" => requests[r].out = NoOutcome
             /\ Lookup(r) => requests[r].resp.status = 200
       /\ \A i \in 1..Len(log) : log[i].level # "error"

\* C8 witness: in test mode every request slot holds an answered lookup, one
\* of them for a name the mock table does not list.
C8_Witness ==
    /\ testMode
    /\ \A r \in Requests : Answered(r) /\ Lookup(r)
    /\ \E r \in Requests : requests[r].name = "unknown-key"

\* C9: outside test mode a failed lookup (non-zero exit, output that is not
\* JSON, no content payload) is answered 500 with the JSON body
\* {"error": m}, m a non-empty string.
C9_FailureIs500Json ==
    \A r \in Requests :
        (~testMode /\ Answered(r) /\ Lookup(r) /\ LookupFailed(r)) =>
           /\ requests[r].resp.status = 500
           /\ requests[r].resp.ctype = "application/json"
           /\ HasStringMember(requests[r].resp, "error")
           /\ requests[r].resp.json["error"].v # ""

\* C9 witness: one lookup failed by exit status and another by its output.
C9_Witness ==
    \E r, q \in Requests :
        /\ ~testMode
        /\ Answered(r) /\ requests[r].out.kind = "exit"
        /\ Answered(q) /\ requests[q].out.kind = "garbage"

\* C10: outside test mode a record without content payload is answered 500
\* with the message "Secret '<name>' not found in Proton Pass".
C10_NoContentNamesSecret ==
    \A r \in Requests :
        (/\ ~testMode
         /\ Answered(r) /\ Lookup(r)
         /\ PrintedRecord(r)
         /\ ~Truthy(ItemDataFor(r))) =>
           /\ requests[r].resp.status = 500
           /\ BodyIs(requests[r].resp, "error",
                     "Secret '" \o requests[r].name \o "' not found in Proton Pass")

\* C10 witness: a record without content was answered.
C10_Witness ==
    \E r \in Requests :
        /\ ~testMode
        /\ Answered(r)
        /\ requests[r].out.json = Obj([data |-> Obj(<<>>)])


\* the itemData of request r's record has the member key
Exposes(r, key) ==
    /\ PrintedRecord(r)
    /\ ItemDataFor(r).k = "object"
    /\ key \in DOMAIN ItemDataFor(r).f

\* C11 (as claimed): outside test mode a record that exposes a password is
\* answered with the password, whatever the text; a record that exposes a
\* text and no password is answered with the text.
C11_PasswordPreferred ==
    \A r \in Requests :
        (~testMode /\ Answered(r) /\ Lookup(r)) =>
           /\ Exposes(r, "password") =>
                 BodyIs(requests[r].resp, "value", ItemDataFor(r).f["password"].v)
           /\ ~Exposes(r, "password") /\ Exposes(r, "text") =>
                 BodyIs(requests[r].resp, "value", ItemDataFor(r).f["text"].v)

\* C11 (amended): outside test mode a record whose password is a non-empty
\* string is answered 200 with the password, whatever the text; a record whose
\* password is absent or empty and whose text is a non-empty string is
\* answered 200 with the text.
C11_NonEmptyPasswordPreferred ==
    \A r \in Requests :
        (/\ ~testMode
         /\ Answered(r) /\ Lookup(r)
         /\ PrintedRecord(r)
         /\ ItemDataFor(r).k = "object") =>
           LET password == Get(ItemDataFor(r), "password")
               text == Get(ItemDataFor(r), "text")
           IN  /\ Truthy(password) =>
                     /\ requests[r].resp.status = 200
                     /\ BodyIs(requests[r].resp, "value", password.v)
               /\ ~Truthy(password) /\ Truthy(text) =>
                     /\ requests[r].resp.status = 200
                     /\ BodyIs(requests[r].resp, "value", text.v)

\* C11 witness: a record with both a password and a text was answered.
C11_Witness ==
    \E r \in Requests :
        /\ ~testMode
        /\ Answered(r)
        /\ requests[r].out.json =
              Record(Obj([password |-> Str(Password), text |-> Str(Note)]))


\* the next request slot to be used, 0 when all are taken
NextSlot ==
    IF \E r \in Requests : ~Arrived(r)
    THEN CHOOSE r \in Requests : ~Arrived(r) /\ \A q \in Requests : q < r => Arrived(q)
    ELSE 0

\* C12: once the socket is bound the process never exits, whatever the
\* lookups did, and the next request can be dispatched; the exit status is
\* only ever set by the failing login, before the socket is bound.
C12_OnlyStartupTerminates ==
    /\ [](listening =>
            /\ exitStatus = NotExited
            /\ NextSlot # 0 => ENABLED Fetch(NextSlot, <<"/", "unknown">>))
    /\ [][exitStatus' # exitStatus => pc = "login" /\ ~listening]_vars

\* C12 witness: a lookup failed in the subprocess, another failed on its
\* output, and the server is running.
C12_Witness ==
    /\ listening
    /\ exitStatus = NotExited
    /\ \E r, q \in Requests :
          /\ Answered(r) /\ requests[r].out.kind = "exit"
          /\ requests[r].resp.status = 500
          /\ Answered(q) /\ requests[q].out.json = Null
          /\ requests[q].resp.status = 500


\* the text after the last "/" of a pathname: its last token, or nothing when
\* the pathname ends in "/"
FinalToken(path) == IF path[Len(path)] = "/" THEN "" ELSE path[Len(path)]

\* C13: for every pathname starting with /api/secrets/ the handler is given
\* the final "/"-delimited token as name; a pathname ending in "/" gives the
\* empty name and is answered 400.
C13_NameIsFinalToken ==
    \A r \in Requests :
        (Arrived(r) /\ StartsWith(requests[r].path, SecretsPrefix)) =>
           /\ requests[r].route = "secret"
           /\ requests[r].name = FinalToken(requests[r].path)
           /\ requests[r].path[Len(requests[r].path)] = "/" =>
                 /\ Answered(r)
                 /\ requests[r].resp.status = 400
                 /\ BodyIs(requests[r].resp, "error", "Secret name is required")

\* C13 witness: /api/secrets/a/unknown-key and /api/secrets/unknown-key/ were
\* both requested.
C13_Witness ==
    \E r, q \in Requests :
        /\ requests[r].path = SecretsPrefix \o <<"a", "/", "unknown-key">>
        /\ requests[r].name = "unknown-key"
        /\ requests[q].path = SecretsPrefix \o <<"unknown-key", "/">>
        /\ requests[q].resp.status = 400


\* the pathname is neither /config.js nor under /api/secrets/
UnknownPath(path) == path # ConfigJsPath /\ ~StartsWith(path, SecretsPrefix)

\* C14: every request whose pathname is not exactly /config.js and does not
\* start with /api/secrets/ is answered at once with 404 and the plain body
\* "Not Found", and neither handleGetSecret nor getSecret runs for it: it has
\* no name, no tool call and no log line.
C14_UnknownPathIs404 ==
    /\ \A r \in Requests :
          (Arrived(r) /\ UnknownPath(requests[r].path)) =>
             /\ Answered(r)
             /\ requests[r].route = "notfound"
             /\ requests[r].resp.status = 404
             /\ requests[r].resp.kind = "text"
             /\ requests[r].resp.text = "Not Found"
             /\ requests[r].name = ""
             /\ requests[r].out = NoOutcome
    /\ toolCalls <= Cardinality({r \in Requests :
                                    Arrived(r) /\ ~UnknownPath(requests[r].path)})

\* C14 witness: /api/secrets and /config.js/ were both requested and answered.
C14_Witness ==
    \E r, q \in Requests :
        /\ requests[r].path = <<"/", "api", "/", "secrets">>
        /\ requests[r].resp.status = 404
        /\ requests[q].path = ConfigJsPath \o <<"/">>
        /\ requests[q].resp.status = 404


\* C15: a request for exactly /config.js takes the bundle branch and no other,
\* and when the file at configPath exists the answer is 200 with Content-Type
\* application/javascript and the file's content as body, whatever it holds.
C15_BundleIsJavascript ==
    \A r \in Requests :
        (Arrived(r) /\ requests[r].path = ConfigJsPath) =>
           /\ Answered(r)
           /\ requests[r].route = "config"
           /\ requests[r].name = ""
           /\ requests[r].out \in FileOutcomes
           /\ requests[r].out.kind = "file" =>
                 /\ requests[r].resp.status = 200
                 /\ requests[r].resp.ctype = "application/javascript"
                 /\ requests[r].resp.kind = "file"
                 /\ requests[r].resp.text = requests[r].out.raw

\* C15 witness: /config.js was served twice, once from a file that holds no
\* script.
C15_Witness ==
    \E r, q \in Requests :
        /\ requests[r].path = ConfigJsPath
        /\ requests[r].out = FileOutcome(TRUE, "<html>")
        /\ requests[r].resp.status = 200
        /\ requests[q].path = ConfigJsPath
        /\ requests[q].out = FileOutcome(TRUE, "")
        /\ requests[q].resp.status = 200


\* C16: without test mode the number of `pass-cli item get` subprocesses
\* started equals the number of secret requests with a non-empty name that
\* have arrived, repeated names included, and every such request that is
\* answered was answered from the outcome of a subprocess.
C16_OneSubprocessPerCall ==
    ~testMode =>
       /\ toolCalls = Cardinality({r \in Requests : Lookup(r)})
       /\ \A r \in Requests :
             (Lookup(r) /\ Answered(r)) => requests[r].out \in ToolOutcomes

\* C16 witness: a name was read with success and then requested again, and
\* two subprocesses have been started.
C16_Witness ==
    /\ ~testMode
    /\ toolCalls = 2
    /\ \E r, q \in Requests :
          /\ r < q
          /\ Lookup(r) /\ Answered(r) /\ requests[r].resp.status = 200
          /\ Lookup(q)
          /\ requests[q].name = requests[r].name


InFlight(r) == requests[r].stage = "awaiting"

\* C17: every lookup in flight has a subprocess of its own (as many are
\* running as requests wait, same name or not), each of them may end
\* whatever the other requests do, a step completes at most one
\* request and leaves the others as they were, and equal outcomes for equal
\* names give equal responses.
C17_ConcurrentLookupsIndependent ==
    /\ [](~testMode =>
            toolCalls = Cardinality({r \in Requests : InFlight(r)})
                        + Cardinality({r \in Requests : Lookup(r) /\ Answered(r)}))
    /\ [](\A r \in Requests :
            InFlight(r) => ENABLED (\E out \in ToolOutcomes : ToolReturns(r, out)))
    /\ [](\A r, q \in Requests :
            (/\ Lookup(r) /\ Answered(r) /\ Lookup(q) /\ Answered(q)
             /\ requests[r].name = requests[q].name
             /\ requests[r].out = requests[q].out)
            => requests[r].resp = requests[q].resp)
    /\ [][\A r, q \in Requests :
            (requests'[r] # requests[r] /\ requests'[q] # requests[q]) => r = q]_vars

\* C17 witness: two requests for one name were in flight together (the second
\* arrived before the first was answered, so the log has no line of the first
\* yet) and got different answers from different outcomes.
C17_Witness ==
    \E r, q \in Requests :
        /\ r # q
        /\ Lookup(r) /\ Lookup(q)
        /\ requests[r].name = requests[q].name
        /\ InFlight(r)
        /\ Answered(q)
        /\ requests[q].resp.status = 500
        /\ toolCalls = 2


\* C18: while the lookup of the stalled request is pending, the next request
\* can be dispatched, be it for the bundle, an unknown path or a secret;
\* requests that need no subprocess are answered on arrival; and whenever
\* another lookup is in flight beside the stalled one it is eventually
\* answered, the stalled one still pending.
C18_StallIsLocal ==
    /\ []((InFlight(Stalled) /\ NextSlot # 0) =>
            /\ ENABLED Fetch(NextSlot, ConfigJsPath)
            /\ ENABLED Fetch(NextSlot, <<"/", "unknown">>)
            /\ ENABLED Fetch(NextSlot, SecretsPrefix \o <<"test-secret">>))
    /\ [](\A r \in Requests :
            (Arrived(r) /\ ~Lookup(r)) => Answered(r))
    /\ \A r \in Requests \ {Stalled} :
          (InFlight(Stalled) /\ InFlight(r)) ~> (InFlight(Stalled) /\ Answered(r))

\* C18 witness: another lookup arrived after the stalled one and has been
\* answered while the stalled one is still pending.
C18_Witness ==
    /\ InFlight(Stalled)
    /\ \E r \in Requests \ {Stalled} :
          /\ Lookup(r)
          /\ Answered(r)
          /\ requests[r].out \in ToolOutcomes


\* C19 (as claimed): outside test mode the login operation is performed
\* exactly once per start, by authenticateProtonPass before the socket is
\* bound, the container start command included: never more than one login,
\* and exactly one once the server listens.
C19_LoginExactlyOnce ==
    ~testMode =>
       /\ loginCalls <= 1
       /\ listening => (loginCalls = 1 /\ auth = "Authenticated")

\* C20 (as claimed): in test mode start-up never invokes the login operation
\* and cannot fail: the authentication state is NotStarted or Authenticated
\* and the process has not exited.
C20_TestModeNeverLogsIn ==
    testMode =>
       /\ loginCalls = 0
       /\ auth \in {"NotStarted", "Authenticated"}
       /\ exitStatus = NotExited


\* C21: no step changes the test-mode flag, and a step that handles a request
\* (it changes a request record) leaves the authentication state unchanged;
\* authenticateProtonPass and every getSecret call saw the same flag: once the
\* server listens, the login was skipped exactly when every answered lookup
\* was answered from the mock table, without a subprocess.
C21_FlagIsFixed ==
    /\ [][testMode' = testMode]_vars
    /\ [][requests' # requests => auth' = auth]_vars
    /\ [](listening =>
            /\ testMode <=> loginCalls = 0
            /\ \A r \in Requests :
                  (Lookup(r) /\ Answered(r)) =>
                     (requests[r].out = NoOutcome <=> loginCalls = 0))

\* C21 witness: lookups have been answered in test mode after the login was
\* skipped.
C21_Witness ==
    /\ testMode
    /\ auth = "Authenticated"
    /\ loginCalls = 0
    /\ \A r \in Requests : Lookup(r) /\ Answered(r)


Failed500(r) == Lookup(r) /\ Answered(r) /\ requests[r].resp.status = 500

\* C23 (as claimed): the body of a 500 response does not depend on what the
\* subprocess printed: two failed lookups of one name whose subprocesses
\* ended alike but for their raw output are answered with the same body.
C23_BodyHidesRawOutput ==
    \A r, q \in Requests :
        (/\ Failed500(r) /\ Failed500(q)
         /\ requests[r].name = requests[q].name
         /\ requests[r].out.kind = requests[q].out.kind
         /\ requests[r].out.code = requests[q].out.code
         /\ requests[r].out.json = requests[q].out.json)
        => requests[r].resp.json = requests[q].resp.json


\* the values the server is trusted with
SecretValues ==
    {Password, Note} \cup {mockSecrets[n] : n \in DOMAIN mockSecrets}

ErrorLines == {i \in DOMAIN log : log[i].level = "error"}
FailedLookups ==
    {r \in Requests : Lookup(r) /\ Answered(r) /\ ~GatewayResult(r).ok}

C29_BundlePathFixedAtStartup ==
    /\ [](IF listening
          THEN /\ configPath \in {DockerPath, LocalPath}
               /\ \E i \in DOMAIN log :
                     log[i].msg = "Serving config from: " \o configPath
          ELSE configPath = "")
    /\ [][configPath' # configPath =>
            (pc = "authenticated" /\ ~listening /\ listening')]_vars
    /\ [][\A r \in Requests :
            (requests[r].stage = "none" /\ requests'[r].route = "config") =>
               /\ configPath' = configPath
               /\ requests'[r].resp = ResponseFile(configPath, requests'[r].out)]_vars

\* C29 witness: the local path was chosen at start-up, and of two later
\* requests for /config.js one found the file and the other did not.
C29_Witness ==
    /\ configPath = LocalPath
    /\ \E r, q \in Requests :
          /\ requests[r].route = "config"
          /\ requests[r].resp.status = 200
          /\ requests[q].route = "config"
          /\ requests[q].resp.kind = "unhandled"
          /\ requests[q].resp.text = LocalPath


\* the runtime has called back at least once; First is what it handed over
CalledBack == Len(client.responses) >= 1
First == client.responses[1]

\* the request failed in transport (error, timeout) or its text is not JSON
TransportOrParseFailure(response) ==
    Truthy(response.error) \/ response.text.kind # "json"

\* C25 (as claimed): when the secret request fails (transport error, timeout,
\* unparsable response) the client's getSecret returns the empty string.
C25_FailureGivesEmptyString ==
    (CalledBack /\ TransportOrParseFailure(First)) =>
        client.promise = [state |-> "resolved", value |-> Str("")]

\* the server was not reached, or it answered with an error status
RequestFailed(response) == Truthy(response.error) \/ response.status # 200

\* C26 (as claimed): setupLLM never rejects, the module is loaded to its end,
\* and when the secret request failed (server unreachable, secret missing)
\* setupLLM ends with the error logged and settings.llm.custom as it was.
C26_SetupDegradesGracefully ==
    /\ client.pc \in {"unloaded", "awaiting", "fulfilled"}
    /\ client.pc # "unloaded" => client.loaded
    /\ (client.pc = "fulfilled" /\ RequestFailed(First)) =>
          /\ client.custom = client.custom0
          /\ \E i \in DOMAIN client.console :
                /\ client.console[i].level = "error"
                /\ client.console[i].msg = "Failed to setup LLM:"

\* the server's JSON error answer: an `error` member and no `value`
ServerErrorAnswer(response) ==
    /\ ~Truthy(response.error)
    /\ response.status \in {400, 500}
    /\ response.text.kind = "json"
    /\ response.text.doc.k = "object"
    /\ DOMAIN response.text.doc.f = {"error"}

\* C27 (as claimed): after a JSON error answer of the server the client's
\* getSecret does not resolve, and settings.llm.custom is assigned only from
\* a 200 answer with a string value: its apiKey is never undefined.
C27_ConfiguredOnlyWithString ==
    /\ (CalledBack /\ ServerErrorAnswer(First)) => client.promise.state # "resolved"
    /\ client.custom # client.custom0 =>
          /\ First.status = 200
          /\ Get(client.custom, "apiKey").k = "string"


Rejected(prefix) ==
    /\ client.promise.state = "rejected"
    /\ client.promise.error.prefix = prefix

\* what holds of the promise whatever the text parses to: pending exactly
\* until the first callback, one resolve or reject per callback, `Server
\* error` for an error of the runtime, `Failed to parse response` for a text
\* that is not JSON, and no change once settled
PromiseSettlesOnce ==
    /\ [](client.pc # "unloaded" =>
            /\ client.promise.state = "pending" <=> ~CalledBack
            /\ Len(client.settled) = Len(client.responses)
            /\ (CalledBack /\ Truthy(First.error)) => Rejected("Server error: ")
            /\ (CalledBack /\ ~Truthy(First.error) /\ First.text.kind # "json")
                  => Rejected("Failed to parse response: "))
    /\ [][client.promise.state \in {"resolved", "rejected"} =>
            client.promise' = client.promise]_vars

\* C28 (as claimed): the promise settles exactly once; it rejects with
\* `Server error` on an error of the runtime, with `Failed to parse response`
\* on a text that is not valid JSON, and otherwise resolves with the parsed
\* body's `value`.
C28_SettlesOnce ==
    /\ PromiseSettlesOnce
    /\ []((CalledBack /\ ~Truthy(First.error) /\ First.text.kind = "json") =>
            /\ client.promise.state = "resolved"
            /\ First.text.doc # Null =>
                  client.promise.value = Get(First.text.doc, "value"))

\* C28 (amended): as claimed, but a text that is valid JSON and parses to
\* null is rejected with `Failed to parse response` too; every other valid
\* JSON text resolves the promise with the body's `value`, undefined when the
\* body has none.
C28_SettlesOnceNullRejected ==
    /\ PromiseSettlesOnce
    /\ []((CalledBack /\ ~Truthy(First.error) /\ First.text.kind = "json") =>
            IF First.text.doc = Null
            THEN Rejected("Failed to parse response: ")
            ELSE /\ client.promise.state = "resolved"
                 /\ client.promise.value = Get(First.text.doc, "value"))

\* C28 witness: the runtime called back twice, first with the text `null` and
\* then with an answer carrying a value; the promise is rejected.
C28_Witness ==
    /\ Len(client.responses) = 2
    /\ client.responses[1].text = JsonText(Null)
    /\ client.responses[2].text.kind = "json"
    /\ client.settled = <<"rejected", "resolved">>
    /\ Rejected("Failed to parse response: ")

====
